---- MODULE Spec2Model ----
(***************************************************************************)
(* Image analysis service (apps/image-analysis-service): content           *)
(* moderation, image description, embedding and vector index, and the      *)
(* HTTP handlers of main.py that sequence them.                            *)
(*                                                                         *)
(* Confidence scores and the threshold are integers in hundredths          *)
(* (0.6 is 60).  A text (description, query, message) is a sequence of     *)
(* tokens; the empty sequence is Python's empty string, the token " " is   *)
(* white space.  A handler runs as a sequence of steps recorded in pc; one *)
(* request is in flight at a time, as in the single event loop of          *)
(* uvicorn.run(app): no service method suspends once it has started.       *)
(***************************************************************************)
EXTENDS Integers, Sequences, FiniteSets, TLC

VARIABLES
    threshold,          \* ContentModerationService.threshold
    provider,           \* ImageDescriptionService.provider
    openai_api_key,     \* ImageDescriptionService.openai_api_key is set
    catalog,            \* what GET /api/tags answered in __init__
    desc_is_available,  \* ImageDescriptionService._is_available
    embedding_model,    \* VectorSearchService.embedding_model is not None
    qdrant_client,      \* VectorSearchService.qdrant_client is not None
    vs_is_available,    \* VectorSearchService._is_available
    store,              \* the points of collection asset_images
    next_id,            \* the next fresh point id (uuid4)
    pc,                 \* position of the request in flight
    req,                \* the request in flight
    moderation_result,  \* analyze_image / moderate_image local
    description,        \* analyze_image local
    embedding,          \* analyze_image local
    response,           \* what the caller receives
    env,                \* the outcomes of the external calls of the request
    log,                \* the service calls made for the request, in order
    instances,          \* the service instances starting against one vector store
    collection,         \* the collection asset_images of that store
    tasks,              \* the requests in flight in the processes of one host
    temp_image,         \* the file /tmp/temp_image.jpg of that host
    running             \* per process, the request its event loop is running

vars == <<threshold, provider, openai_api_key, catalog, desc_is_available,
          embedding_model, qdrant_client, vs_is_available, store, next_id,
          pc, req, moderation_result, description, embedding, response,
          env, log, instances, collection, tasks, temp_image, running>>

\* What lies outside the one process and the one request at a time that
\* the handlers below run in: the instances starting together and the
\* processes of the host.
host == <<instances, collection, tasks, temp_image, running>>

config == <<threshold, provider, openai_api_key, catalog, desc_is_available,
            embedding_model, qdrant_client, vs_is_available>>

None == "None"

(***************************************************************************)
(* Bounds of the model.                                                    *)
(***************************************************************************)
MaxDets == 2
MaxRecords == 2
MaxInstances == 2
MaxRequests == 2

(***************************************************************************)
(* Content moderation.                                                     *)
(***************************************************************************)
DefaultThreshold == 60

unsafe_labels ==
    {"EXPOSED_BREAST_F", "EXPOSED_GENITALIA_F", "EXPOSED_GENITALIA_M",
     "EXPOSED_BUTTOCKS", "EXPOSED_ANUS"}

Labels == {"EXPOSED_BREAST_F", "EXPOSED_ANUS", "FACE_FEMALE"}
Scores == {30, 60, 90}
Thresholds == {DefaultThreshold, 30}
Detection == [class : Labels, score : Scores]

\* All sequences over S of length at most n.
RECURSIVE SeqsUpTo(_, _)
SeqsUpTo(S, n) ==
    IF n = 0 THEN {<<>>}
    ELSE LET shorter == SeqsUpTo(S, n - 1)
         IN  shorter \cup {Append(s, x) : s \in {t \in shorter : Len(t) = n - 1}, x \in S}

\* The steps of check_image that can raise: Image.open, image.save,
\* detector.detect, os.remove.
CheckFaults == {"none", "open", "save", "detect", "remove"}

TriggersAtOrAbove(detection, thr) ==
    detection.class \in unsafe_labels /\ detection.score >= thr

\* The test of check_image line 87.
Triggers(detection, thr) ==
    detection.class \in unsafe_labels /\ detection.score > thr

\* The loop of check_image over the detections, from index i on.
RECURSIVE ScanDetections(_, _, _, _, _)
ScanDetections(detections, i, thr, detected_unsafe, confidence_scores) ==
    IF i > Len(detections) THEN
        [detected_unsafe |-> detected_unsafe,
         confidence_scores |-> confidence_scores]
    ELSE
        LET detection == detections[i]
            label == detection.class
            score == detection.score
            scores2 == [l \in DOMAIN confidence_scores \cup {label} |->
                           IF l = label THEN score ELSE confidence_scores[l]]
            unsafe2 == IF Triggers(detection, thr)
                       THEN Append(detected_unsafe,
                                   [label |-> label, confidence |-> score])
                       ELSE detected_unsafe
        IN  ScanDetections(detections, i + 1, thr, unsafe2, scores2)

\* ', '.join(labels)
RECURSIVE Join(_)
Join(labels) ==
    IF Len(labels) = 0 THEN <<>>
    ELSE IF Len(labels) = 1 THEN <<labels[1]>>
    ELSE <<labels[1], ", ">> \o Join(Tail(labels))

SafeMessage == <<"Image is safe for upload">>

UnsafeMessageReversed(detected_unsafe) ==
    <<"Image contains inappropriate content: ">>
        \o Join([k \in 1..Len(detected_unsafe) |->
                    detected_unsafe[Len(detected_unsafe) + 1 - k].label])

UnsafeMessage(detected_unsafe) ==
    <<"Image contains inappropriate content: ">>
        \o Join([k \in 1..Len(detected_unsafe) |-> detected_unsafe[k].label])

\* What a call gives its caller: a returned value or a raised exception.
Return(v) == [ok |-> TRUE, value |-> v]
Raise(e) == [ok |-> FALSE, value |-> e]

\* The try block of check_image: Image.open, the conversion to RGB, the
\* save to the temporary path, the detection, the removal of the file and
\* the decision.  A verdict without an "error" key has error = None; the
\* box of a detection is carried along unchanged and left out.
check_image_try(image, fault, thr) ==
    IF ~image.decodable THEN Raise("cannot identify image file")
    ELSE IF fault # "none" THEN Raise(fault)
    ELSE
        LET scan == ScanDetections(image.detections, 1, thr, <<>>, <<>>)
            is_safe == Len(scan.detected_unsafe) = 0
        IN  Return([is_safe |-> is_safe,
                    message |-> IF is_safe THEN SafeMessage
                                ELSE UnsafeMessage(scan.detected_unsafe),
                    detections |-> scan.detected_unsafe,
                    confidence_scores |-> scan.confidence_scores,
                    all_detections |-> image.detections,
                    error |-> None])

\* The except branch of check_image.
FailOpenVerdict(e) ==
    [is_safe |-> TRUE,
     message |-> <<"Moderation check failed: ", e, ". Defaulting to safe.">>,
     detections |-> <<>>,
     confidence_scores |-> <<>>,
     all_detections |-> <<>>,
     error |-> e]

check_image_reraising(image, fault, thr) ==
    check_image_try(image, fault, thr)

\* ContentModerationService.check_image.
check_image(image, fault, thr) ==
    LET r == check_image_try(image, fault, thr)
    IN  IF r.ok THEN r ELSE Return(FailOpenVerdict(r.value))

(***************************************************************************)
(* Image description.                                                      *)
(***************************************************************************)
Providers == {"openai", "ollama", "azure"}
ApiKeys == {None, "", "sk-key"}

\* Python truth of a string or None.
Truthy(s) == s # None /\ s # ""

ollama_model == <<"llava">>

\* The answers of GET /api/tags: the request raises, a status other than
\* 200, 200 with a body that is not JSON, 200 with a JSON object without
\* "models", or 200 with a list of models.  A name is a sequence of tokens
\* (<<"bak", "llava">> is the name "bakllava"); the empty name is an entry
\* without "name".
CatalogNames == {<<>>, <<"mistral">>, <<"llava", ":latest">>, <<"bak", "llava">>}
Probes ==
    {[kind |-> k, models |-> {}] : k \in {"raise", "status", "bad_json", "no_models"}}
        \cup {[kind |-> "ok", models |-> m] : m \in SUBSET CatalogNames}

\* The two answers that tell the local provider available or not.
CommonProbes ==
    {[kind |-> "raise", models |-> {}],
     [kind |-> "ok", models |-> {<<"llava", ":latest">>}]}

\* No request to /api/tags: the provider is not the local one.
NoProbe == [kind |-> "none", models |-> {}]

\* self.ollama_model in name
Contains(name, model) ==
    \E i \in 1..Len(name) : SubSeq(name, i, i + Len(model) - 1) = model

\* The try block of _check_availability.
_check_availability_try(prov, key, probe) ==
    IF prov = "openai" THEN Return(Truthy(key))
    ELSE IF prov = "ollama" THEN
        IF probe.kind = "raise" THEN Raise("ConnectionError")
        ELSE IF probe.kind = "status" THEN Return(FALSE)
        ELSE IF probe.kind = "bad_json" THEN Raise("JSONDecodeError")
        ELSE IF probe.kind = "no_models" THEN Return(FALSE)
        ELSE Return(\E m \in probe.models : Contains(m, ollama_model))
    ELSE Return(FALSE)

\* ImageDescriptionService._check_availability
_check_availability(prov, key, probe) ==
    LET r == _check_availability_try(prov, key, probe)
    IN  IF r.ok THEN r.value ELSE FALSE

\* The answers of the description backend to the POST: the request raises
\* (timeout, connection), a status other than 200, 200 with a body that is
\* not the JSON expected (json() or the indexing raises), 200 with a JSON
\* object that lacks the text field, 200 with a text.
BackendTexts == {<<" ">>, <<" ", "red", "car", " ">>, <<"dog">>}
Backends ==
    {[kind |-> k, text |-> <<>>] : k \in {"raise", "status", "bad_json", "no_field"}}
        \cup {[kind |-> "ok", text |-> t] : t \in BackendTexts}

\* str.strip()
RECURSIVE LStrip(_)
LStrip(text) ==
    IF Len(text) > 0 /\ Head(text) = " " THEN LStrip(Tail(text)) ELSE text

RECURSIVE RStrip(_)
RStrip(text) ==
    IF Len(text) > 0 /\ text[Len(text)] = " "
    THEN RStrip(SubSeq(text, 1, Len(text) - 1)) ELSE text

Strip(text) == RStrip(LStrip(text))

FailedDescription == <<"Failed to generate image description">>

\* The size <<width, height>> of an image no request cares about.
DefaultSize == <<640, 480>>

\* max_size of _generate_with_openai and of _generate_with_ollama.
OpenAIMaxSize == 1024
OllamaMaxSize == 512

\* max(image.size)
Longest(size) == IF size[1] >= size[2] THEN size[1] ELSE size[2]

\* The <<dim, max_size, max(image.size)>> among the sizes drawn here for
\* which the double dim * (max_size / max(image.size)) falls just below
\* the exact integer product (561 * (512 / 561) is 511.99999999999994).
RoundsBelow ==
    {<<561, 512, 561>>, <<561, 512, 1122>>, <<1122, 512, 1122>>,
     <<561, 1024, 1122>>, <<1122, 1024, 1122>>}

\* int(dim * ratio), ratio = max_size / max(image.size)
Scale(dim, max_size, longest) ==
    LET exact == (dim * max_size) \div longest
    IN  IF <<dim, max_size, longest>> \in RoundsBelow THEN exact - 1 ELSE exact

\* new_size = tuple(int(dim * ratio) for dim in image.size)
new_size(size, max_size) ==
    <<Scale(size[1], max_size, Longest(size)), Scale(size[2], max_size, Longest(size))>>

\* Image.resize: a width or height below 1 raises ValueError.
resize(size) ==
    IF size[1] < 1 \/ size[2] < 1 THEN Raise("height and width must be > 0")
    ELSE Return(size)

\* The "Resize if too large" block of the two generators.
ResizeIfTooLarge(size, max_size) ==
    IF Longest(size) > max_size THEN resize(new_size(size, max_size))
    ELSE Return(size)

\* The try block of _generate_with_openai.
_generate_with_openai_try(image, backend) ==
    IF ~image.decodable THEN Raise("cannot identify image file")
    ELSE IF ~ResizeIfTooLarge(image.size, OpenAIMaxSize).ok
    THEN ResizeIfTooLarge(image.size, OpenAIMaxSize)
    ELSE IF backend.kind = "raise" THEN Raise("timeout")
    ELSE IF backend.kind = "status" THEN Return(FailedDescription)
    ELSE IF backend.kind = "bad_json" THEN Raise("JSONDecodeError")
    ELSE IF backend.kind = "no_field" THEN Raise("KeyError")
    ELSE Return(Strip(backend.text))

\* ImageDescriptionService._generate_with_openai
_generate_with_openai(image, backend) ==
    LET r == _generate_with_openai_try(image, backend)
    IN  IF r.ok THEN r ELSE Return(<<"Error with OpenAI: ", r.value>>)

\* The try block of _generate_with_ollama: result.get("response", "")
\* gives "" when the field is missing.
_generate_with_ollama_try(image, backend) ==
    IF ~image.decodable THEN Raise("cannot identify image file")
    ELSE IF ~ResizeIfTooLarge(image.size, OllamaMaxSize).ok
    THEN ResizeIfTooLarge(image.size, OllamaMaxSize)
    ELSE IF backend.kind = "raise" THEN Raise("timeout")
    ELSE IF backend.kind = "status" THEN Return(FailedDescription)
    ELSE IF backend.kind = "bad_json" THEN Raise("JSONDecodeError")
    ELSE IF backend.kind = "no_field" THEN Return(Strip(<<>>))
    ELSE Return(Strip(backend.text))

\* ImageDescriptionService._generate_with_ollama
_generate_with_ollama(image, backend) ==
    LET r == _generate_with_ollama_try(image, backend)
    IN  IF r.ok THEN r ELSE Return(<<"Error with Ollama: ", r.value>>)

\* The try block of generate_description.
generate_description_try(image, backend, prov, available) ==
    IF ~available
    THEN Return(<<"Image description unavailable - ", prov, " service not configured">>)
    ELSE IF prov = "openai" THEN _generate_with_openai(image, backend)
    ELSE IF prov = "ollama" THEN _generate_with_ollama(image, backend)
    ELSE Return(<<"Unknown image description provider">>)

\* ImageDescriptionService.generate_description
generate_description(image, backend, prov, available) ==
    LET r == generate_description_try(image, backend, prov, available)
    IN  IF r.ok THEN r ELSE Return(<<"Error generating description: ", r.value>>)

(***************************************************************************)
(* Vector search.                                                          *)
(***************************************************************************)
\* The outcomes of the steps of VectorSearchService._initialize: loading
\* the CLIP model, constructing the client, get_collections (raises, or
\* tells whether the collection is there), create_collection.
Bootstraps ==
    [model_ok : BOOLEAN, client_ok : BOOLEAN,
     collections : {"raise", "exists", "absent"}, create_ok : BOOLEAN]

\* VectorSearchService._initialize: the fields it leaves.
_initialize(b) ==
    IF ~b.model_ok THEN
        [embedding_model |-> FALSE, qdrant_client |-> FALSE, _is_available |-> FALSE]
    ELSE IF ~b.client_ok THEN
        [embedding_model |-> TRUE, qdrant_client |-> FALSE, _is_available |-> FALSE]
    ELSE IF b.collections = "raise" THEN
        [embedding_model |-> TRUE, qdrant_client |-> TRUE, _is_available |-> FALSE]
    ELSE IF b.collections = "absent" /\ ~b.create_ok THEN
        [embedding_model |-> TRUE, qdrant_client |-> TRUE, _is_available |-> FALSE]
    ELSE
        [embedding_model |-> TRUE, qdrant_client |-> TRUE, _is_available |-> TRUE]

\* The embedding model: a text is encoded as the counts of its words over
\* a vocabulary, any other word counted as "other", plus a constant
\* component (the start and end tokens), so that no vector is zero.
Vocabulary == {"red", "car", "dog"}
Dimensions == Vocabulary \cup {"other", "bias"}

\* The number of tokens of text that are in W.
RECURSIVE Count(_, _)
Count(text, W) ==
    IF Len(text) = 0 THEN 0
    ELSE (IF Head(text) \in W THEN 1 ELSE 0) + Count(Tail(text), W)

Encode(text) ==
    [d \in Dimensions |->
        IF d = "bias" THEN 1
        ELSE IF d = "other" THEN Len(text) - Count(text, Vocabulary \cup {" "})
        ELSE Count(text, {d})]

\* The try block of generate_embedding.
generate_embedding_try(text, model, encode_ok) ==
    IF ~model THEN Raise("Embedding model not initialized")
    ELSE IF ~encode_ok THEN Raise("encode error")
    ELSE Return(Encode(text))

\* VectorSearchService.generate_embedding: the except branch logs and
\* raises again.
generate_embedding(text, model, encode_ok) ==
    generate_embedding_try(text, model, encode_ok)

\* A call of a service method that may touch the store: what the caller
\* gets, the store after it, and the calls issued to the store.
Effect(result, points, calls) ==
    [result |-> result, store |-> points, calls |-> calls]

\* str(uuid.uuid4()): the n-th identifier drawn, a string that no earlier
\* draw gave.
uuid4(n) == ToString(n)

\* qdrant_client.upsert of one point: a point with the same id is replaced,
\* any other id adds a point.
upsert(points, point) ==
    IF \E k \in DOMAIN points : points[k].id = point.id
    THEN [k \in DOMAIN points |-> IF points[k].id = point.id THEN point ELSE points[k]]
    ELSE Append(points, point)

\* The point index_asset builds around the embedding.
PointStruct(id, vector, asset_id, text, metadata) ==
    [id |-> id, vector |-> vector,
     payload |-> [asset_id |-> asset_id, description |-> text,
                  workspace |-> metadata.workspace, name |-> metadata.name]]

\* index_asset with the asset id as the point id (mutation of
\* index_asset_try).
index_asset_keyed_by_asset_id(points, id, client, asset_id, text, vector, metadata, store_ok) ==
    IF ~store_ok THEN Effect(Raise("upsert failed"), points, <<"upsert">>)
    ELSE Effect(Return(None),
                upsert(points, PointStruct(asset_id, vector, asset_id, text, metadata)),
                <<"upsert">>)

\* The try block of index_asset after the test of the client; id is the
\* uuid4 drawn for the point.
index_asset_try(points, id, client, asset_id, text, vector, metadata, store_ok) ==
    IF ~store_ok THEN Effect(Raise("upsert failed"), points, <<"upsert">>)
    ELSE Effect(Return(None),
                upsert(points, PointStruct(id, vector, asset_id, text, metadata)),
                <<"upsert">>)

\* VectorSearchService.index_asset: the except branch logs and raises
\* again.
index_asset(points, id, client, asset_id, text, vector, metadata, store_ok) ==
    IF ~client THEN Effect(Raise("Qdrant client not initialized"), points, <<>>)
    ELSE index_asset_try(points, id, client, asset_id, text, vector,
                               metadata, store_ok)

\* Cosine similarity of the store, in thousandths of its square (the
\* vectors have no negative component, so the order is that of the cosine).
Dot(u, v) ==
    LET RECURSIVE Sum(_)
        Sum(D) == IF D = {} THEN 0
                  ELSE LET d == CHOOSE x \in D : TRUE
                       IN  u[d] * v[d] + Sum(D \ {d})
    IN  Sum(Dimensions)

Similarity(u, v) == (1000 * Dot(u, v) * Dot(u, v)) \div (Dot(u, u) * Dot(v, v))

\* The index of the best point of `points` among the indices in I: the
\* highest similarity, the earliest on a tie.
Best(points, I, query) ==
    CHOOSE i \in I :
        \A j \in I :
            \/ Similarity(query, points[i].vector) > Similarity(query, points[j].vector)
            \/ /\ Similarity(query, points[i].vector) = Similarity(query, points[j].vector)
               /\ i <= j

\* query_points: the `limit` nearest points, nearest first, with scores.
RECURSIVE Nearest(_, _, _, _)
Nearest(points, I, query, limit) ==
    IF I = {} \/ limit <= 0 THEN <<>>
    ELSE LET i == Best(points, I, query)
         IN  <<[id |-> points[i].id,
                score |-> Similarity(query, points[i].vector),
                payload |-> points[i].payload]>>
                 \o Nearest(points, I \ {i}, query, limit - 1)

query_points(points, query, limit) ==
    Nearest(points, DOMAIN points, query, limit)

\* The formatting loop of search, filling the list from the front
\* (mutation of FormatResults).
FormatResultsReversed(results) ==
    [k \in 1..Len(results) |->
        [asset_id |-> results[Len(results) + 1 - k].payload.asset_id,
         score |-> results[Len(results) + 1 - k].score,
         description |-> results[Len(results) + 1 - k].payload.description,
         workspace |-> results[Len(results) + 1 - k].payload.workspace,
         name |-> results[Len(results) + 1 - k].payload.name]]

\* The formatting loop of search, reading the point's id for the asset id
\* (mutation of FormatResults).
FormatResultsPointId(results) ==
    [k \in 1..Len(results) |->
        [asset_id |-> results[k].id,
         score |-> results[k].score,
         description |-> results[k].payload.description,
         workspace |-> results[k].payload.workspace,
         name |-> results[k].payload.name]]

\* The formatting loop of search.
FormatResults(results) ==
    [k \in 1..Len(results) |->
        [asset_id |-> results[k].payload.asset_id,
         score |-> results[k].score,
         description |-> results[k].payload.description,
         workspace |-> results[k].payload.workspace,
         name |-> results[k].payload.name]]

search_swallowing(points, client, model, query, limit, encode_ok, store_ok) ==
    IF ~client \/ ~model THEN Effect(Return(<<>>), points, <<>>)
    ELSE LET e == generate_embedding(query, model, encode_ok)
         IN  IF ~e.ok THEN Effect(Return(<<>>), points, <<"generate_embedding">>)
             ELSE IF ~store_ok
             THEN Effect(Return(<<>>), points, <<"generate_embedding", "query_points">>)
             ELSE Effect(Return(FormatResults(query_points(points, e.value, limit))),
                         points, <<"generate_embedding", "query_points">>)

\* VectorSearchService.search: the except branch logs and raises again.
search(points, client, model, query, limit, encode_ok, store_ok) ==
    IF ~client \/ ~model THEN Effect(Raise("Vector search not available"), points, <<>>)
    ELSE LET e == generate_embedding(query, model, encode_ok)
         IN  IF ~e.ok THEN Effect(e, points, <<"generate_embedding">>)
             ELSE IF ~store_ok
             THEN Effect(Raise("query failed"), points, <<"generate_embedding", "query_points">>)
             ELSE Effect(Return(FormatResults(query_points(points, e.value, limit))),
                         points, <<"generate_embedding", "query_points">>)

\* A delete by point id of the latest point of the asset (mutation of
\* delete_asset).
delete_asset_latest(points, client, asset_id, store_ok) ==
    IF ~client THEN Effect(Raise("Qdrant client not initialized"), points, <<>>)
    ELSE IF ~store_ok THEN Effect(Raise("delete failed"), points, <<"delete">>)
    ELSE LET hits == {k \in DOMAIN points : points[k].payload.asset_id = asset_id}
             last == IF hits = {} THEN 0 ELSE CHOOSE k \in hits : \A j \in hits : j <= k
         IN  Effect(Return(None),
                    [k \in 1..(Len(points) - (IF last = 0 THEN 0 ELSE 1)) |->
                        IF last = 0 \/ k < last THEN points[k] ELSE points[k + 1]],
                    <<"delete">>)

\* VectorSearchService.delete_asset: a delete by filter on the payload's
\* asset_id; the except branch logs and raises again.
delete_asset(points, client, asset_id, store_ok) ==
    IF ~client THEN Effect(Raise("Qdrant client not initialized"), points, <<>>)
    ELSE IF ~store_ok THEN Effect(Raise("delete failed"), points, <<"delete">>)
    ELSE Effect(Return(None),
                SelectSeq(points, LAMBDA p : p.payload.asset_id # asset_id),
                <<"delete">>)

(***************************************************************************)
(* The handlers of main.py.                                                *)
(***************************************************************************)
\* Optional values: None or a value.
Null == [some |-> FALSE, val |-> <<>>]
Some(v) == [some |-> TRUE, val |-> v]

\* Python truth of an Optional[str].
NonEmpty(opt) == opt.some /\ Len(opt.val) > 0

\* What the caller receives: an HTTP response, or, for a direct call of a
\* service method, what the method returned or raised.
NoResponse == [kind |-> "none", status |-> 0, body |-> None]
Http(status, body) == [kind |-> "http", status |-> status, body |-> body]

\* raise HTTPException(status_code, detail)
HTTPException(status_code, detail) ==
    Raise([type |-> "HTTPException", status_code |-> status_code, detail |-> detail])

\* An exception raised by a service, as the handler sees it.
Exception(e) == Raise([type |-> "Exception", status_code |-> 0, detail |-> e])

\* A handler's "except Exception as e: raise HTTPException(500, str(e))"
\* catches every exception raised in its try block, an HTTPException too;
\* the framework answers an HTTPException with its status code.
Handle(r) ==
    IF r.ok THEN Http(200, r.value)
    ELSE Http(500, [detail |-> r.value.detail])

\* The requests.  An image is the bytes' being decodable and the detections
\* the classifier finds in it.
UndecodableImage == [decodable |-> FALSE, detections |-> <<>>, size |-> DefaultSize]
AllImages ==
    {UndecodableImage}
        \cup {[decodable |-> TRUE, detections |-> d, size |-> DefaultSize] :
                  d \in SeqsUpTo(Detection, MaxDets)}
SampleImages ==
    {UndecodableImage}
        \cup {[decodable |-> TRUE, detections |-> d, size |-> DefaultSize] :
                  d \in {<<>>,
                         <<[class |-> "EXPOSED_BREAST_F", score |-> 90]>>,
                         <<[class |-> "EXPOSED_BREAST_F", score |-> 60]>>,
                         <<[class |-> "FACE_FEMALE", score |-> 90]>>,
                         <<[class |-> "EXPOSED_ANUS", score |-> 30],
                           [class |-> "EXPOSED_BREAST_F", score |-> 90]>>}}
NoImage == [decodable |-> FALSE, detections |-> <<>>, size |-> DefaultSize]
AssetIds == {"A", "B"}
Texts == {<<"red", "car">>, <<"dog">>}
Queries == Texts \cup {<<>>, <<"red">>}
DefaultLimit == 20
Limits == {1, DefaultLimit}
Metadata == [workspace |-> "ws", name |-> "img"]

Request(op, image, text, asset_id, limit) ==
    [op |-> op, image |-> image, text |-> text, asset_id |-> asset_id, limit |-> limit]
NoRequest == Request("none", NoImage, <<>>, None, 0)

\* The outcomes of the external calls of a request: the step of check_image
\* that raises, the answer of the description backend, whether encode and
\* the store call succeed.
NoBackend == [kind |-> "none", text |-> <<>>]
NoEnv == [fault |-> "none", backend |-> NoBackend, encode_ok |-> TRUE, store_ok |-> TRUE]

UnsafeGateNever(verdict) == FALSE

UnsafeGateOrError(verdict) == ~verdict.is_safe \/ verdict.error # None

\* analyze_image line 73: the unsafe verdict ends the request.
UnsafeGate(verdict) == ~verdict.is_safe

DescribeGateAlways(available) == TRUE

\* analyze_image line 85.
DescribeGate(available) == available

EmbedGateOnModel(available, desc) == embedding_model /\ NonEmpty(desc)

\* analyze_image line 89: vector_search.is_available() and description.
EmbedGate(available, desc) == available /\ NonEmpty(desc)

AnalysisResponse(is_safe, desc, emb, details) ==
    [is_safe |-> is_safe, description |-> desc, embedding |-> emb,
     moderation_details |-> details]

\* VectorSearchService.__init__ before _initialize, with the position of
\* _initialize and what it saw of the collection.
NotStarted ==
    [pc |-> "load_model", embedding_model |-> FALSE, qdrant_client |-> FALSE,
     _is_available |-> FALSE, collection_exists |-> "unknown", conflict |-> FALSE]

\* The store before any instance created the collection.
NoCollection == [exists |-> FALSE, size |-> 0, distance |-> None, creates |-> 0]

\* No request in a slot of the host.
NoTask ==
    [pc |-> "none", op |-> "none", proc |-> 0,
     image |-> [decodable |-> FALSE, detections |-> <<>>, size |-> DefaultSize],
     detections |-> <<>>, verdict |-> [some |-> FALSE, val |-> <<>>],
     waiting |-> FALSE]

InitHost ==
    /\ instances = [i \in 1..MaxInstances |-> NotStarted]
    /\ collection = NoCollection
    /\ tasks = [r \in 1..MaxRequests |-> NoTask]
    /\ temp_image = [some |-> FALSE, val |-> <<>>]
    /\ running = [p \in 1..MaxRequests |-> 0]

\* The state after the construction of the three services (main.py lines
\* 26-28), for the configurations and start-up outcomes given.
InitWith(thresholds, providers, keys, probes, bootstraps) ==
    /\ threshold \in thresholds
    /\ provider \in providers
    /\ openai_api_key \in keys
    /\ catalog \in (IF provider = "ollama" THEN probes ELSE {NoProbe})
    /\ desc_is_available = _check_availability(provider, openai_api_key, catalog)
    /\ \E b \in bootstraps :
           /\ embedding_model = _initialize(b).embedding_model
           /\ qdrant_client = _initialize(b).qdrant_client
           /\ vs_is_available = _initialize(b)._is_available
    /\ store = <<>>
    /\ next_id = 1
    /\ pc = "idle"
    /\ req = NoRequest
    /\ moderation_result = Null
    /\ description = Null
    /\ embedding = Null
    /\ response = NoResponse
    /\ env = NoEnv
    /\ log = <<>>
    /\ InitHost

Init == InitWith(Thresholds, Providers, ApiKeys, CommonProbes, Bootstraps)

\* analyze_image, step 1: content moderation.
AnalyzeModerate(image, fault) ==
    /\ pc = "idle"
    /\ req' = Request("analyze", image, <<>>, None, 0)
    /\ env' = [NoEnv EXCEPT !.fault = fault]
    /\ log' = <<"check_image">>
    /\ LET r == check_image(image, fault, threshold)
       IN  IF ~r.ok THEN
               /\ response' = Handle(Exception(r.value))
               /\ pc' = "done"
               /\ UNCHANGED moderation_result
           ELSE
               /\ moderation_result' = Some(r.value)
               /\ IF UnsafeGate(r.value)
                  THEN /\ response' = Handle(Return(AnalysisResponse(FALSE, Null, Null, r.value)))
                       /\ pc' = "done"
                  ELSE /\ response' = NoResponse
                       /\ pc' = "analyze_describe"
    /\ UNCHANGED <<config, host, store, next_id, description, embedding>>

AnalyzeDescribeRetrying(backend) ==
    /\ pc = "analyze_describe"
    /\ IF DescribeGate(desc_is_available) THEN
           LET r == generate_description(req.image, backend, provider, desc_is_available)
           IN  /\ log' = IF backend.kind = "raise"
                         THEN log \o <<"generate_description", "generate_description">>
                         ELSE Append(log, "generate_description")
               /\ env' = [env EXCEPT !.backend = backend]
               /\ description' = Some(r.value)
               /\ pc' = "analyze_embed"
               /\ response' = NoResponse
       ELSE
           /\ response' = Handle(Return(AnalysisResponse(TRUE, description, embedding,
                                                         moderation_result.val)))
           /\ pc' = "done"
           /\ UNCHANGED <<description, env, log>>
    /\ UNCHANGED <<config, host, store, next_id, req, moderation_result, embedding>>

\* analyze_image, step 2: the description, if the provider is available.
AnalyzeDescribe(backend) ==
    /\ pc = "analyze_describe"
    /\ IF DescribeGate(desc_is_available) THEN
           LET r == generate_description(req.image, backend, provider, desc_is_available)
           IN  /\ log' = Append(log, "generate_description")
               /\ env' = [env EXCEPT !.backend = backend]
               /\ IF r.ok
                  THEN /\ description' = Some(r.value)
                       /\ pc' = "analyze_embed"
                       /\ response' = NoResponse
                  ELSE /\ response' = Handle(Exception(r.value))
                       /\ pc' = "done"
                       /\ UNCHANGED description
       ELSE
           /\ response' = Handle(Return(AnalysisResponse(TRUE, description, embedding,
                                                         moderation_result.val)))
           /\ pc' = "done"
           /\ UNCHANGED <<description, env, log>>
    /\ UNCHANGED <<config, host, store, next_id, req, moderation_result, embedding>>

\* analyze_image, step 3: the embedding of the description.
AnalyzeEmbed(encode_ok) ==
    /\ pc = "analyze_embed"
    /\ IF EmbedGate(vs_is_available, description) THEN
           LET r == generate_embedding(description.val, embedding_model, encode_ok)
           IN  /\ log' = Append(log, "generate_embedding")
               /\ env' = [env EXCEPT !.encode_ok = encode_ok]
               /\ IF r.ok
                  THEN /\ embedding' = Some(r.value)
                       /\ response' = Handle(Return(AnalysisResponse(
                                          TRUE, description, Some(r.value), moderation_result.val)))
                  ELSE /\ response' = Handle(Exception(r.value))
                       /\ UNCHANGED embedding
       ELSE
           /\ response' = Handle(Return(AnalysisResponse(TRUE, description, embedding,
                                                         moderation_result.val)))
           /\ UNCHANGED <<embedding, env, log>>
    /\ pc' = "done"
    /\ UNCHANGED <<config, host, store, next_id, req, moderation_result, description>>

\* moderate_image
ModerateImage(image, fault) ==
    /\ pc = "idle"
    /\ req' = Request("moderate", image, <<>>, None, 0)
    /\ env' = [NoEnv EXCEPT !.fault = fault]
    /\ log' = <<"check_image">>
    /\ LET r == check_image(image, fault, threshold)
       IN  IF r.ok
           THEN /\ moderation_result' = Some(r.value)
                /\ response' = Handle(Return([is_safe |-> r.value.is_safe,
                                              message |-> r.value.message,
                                              details |-> r.value]))
           ELSE /\ response' = Handle(Exception(r.value))
                /\ UNCHANGED moderation_result
    /\ pc' = "done"
    /\ UNCHANGED <<config, host, store, next_id, description, embedding>>

\* describe_image
DescribeImage(image, backend) ==
    /\ pc = "idle"
    /\ req' = Request("describe", image, <<>>, None, 0)
    /\ IF ~desc_is_available THEN
           /\ response' = Handle(HTTPException(503, "Image description service unavailable"))
           /\ log' = <<>>
           /\ env' = NoEnv
           /\ UNCHANGED description
       ELSE
           LET r == generate_description(image, backend, provider, desc_is_available)
           IN  /\ log' = <<"generate_description">>
               /\ env' = [NoEnv EXCEPT !.backend = backend]
               /\ IF r.ok
                  THEN /\ description' = Some(r.value)
                       /\ response' = Handle(Return([description |-> r.value]))
                  ELSE /\ response' = Handle(Exception(r.value))
                       /\ UNCHANGED description
    /\ pc' = "done"
    /\ UNCHANGED <<config, host, store, next_id, moderation_result, embedding>>

\* The list comprehension of search_similar.
SearchResults(results) ==
    [k \in 1..Len(results) |->
        [asset_id |-> results[k].asset_id,
         score |-> results[k].score,
         description |-> results[k].description]]

\* search_similar
SearchSimilar(query, limit, encode_ok, store_ok) ==
    /\ pc = "idle"
    /\ req' = Request("search", NoImage, query, None, limit)
    /\ IF ~vs_is_available THEN
           /\ response' = Handle(HTTPException(503, "Vector search service unavailable"))
           /\ log' = <<>>
           /\ env' = NoEnv
       ELSE
           /\ env' = [NoEnv EXCEPT !.encode_ok = encode_ok, !.store_ok = store_ok]
           /\ LET e == search(store, qdrant_client, embedding_model, query, limit,
                              encode_ok, store_ok)
              IN  /\ log' = e.calls
                  /\ response' = IF e.result.ok
                                 THEN Handle(Return(SearchResults(e.result.value)))
                                 ELSE Handle(Exception(e.result.value))
    /\ pc' = "done"
    /\ UNCHANGED <<config, host, store, next_id, moderation_result, description, embedding>>

\* index_asset of main.py
IndexAsset(asset_id, text, encode_ok, store_ok) ==
    /\ pc = "idle"
    /\ next_id <= MaxRecords + 1
    /\ Len(store) < MaxRecords
    /\ req' = Request("index", NoImage, text, asset_id, 0)
    /\ IF ~vs_is_available THEN
           /\ response' = Handle(HTTPException(503, "Vector search service unavailable"))
           /\ log' = <<>>
           /\ env' = NoEnv
           /\ UNCHANGED <<store, next_id, embedding>>
       ELSE
           /\ env' = [NoEnv EXCEPT !.encode_ok = encode_ok, !.store_ok = store_ok]
           /\ LET r == generate_embedding(text, embedding_model, encode_ok)
              IN  IF ~r.ok THEN
                      /\ response' = Handle(Exception(r.value))
                      /\ log' = <<"generate_embedding">>
                      /\ UNCHANGED <<store, next_id, embedding>>
                  ELSE
                      LET e == index_asset(store, uuid4(next_id), qdrant_client, asset_id,
                                           text, r.value, Metadata, store_ok)
                      IN  /\ embedding' = Some(r.value)
                          /\ log' = <<"generate_embedding">> \o e.calls
                          /\ store' = e.store
                          /\ next_id' = IF e.result.ok THEN next_id + 1 ELSE next_id
                          /\ response' =
                                 IF e.result.ok
                                 THEN Handle(Return([success |-> TRUE,
                                                     asset_id |-> asset_id]))
                                 ELSE Handle(Exception(e.result.value))
    /\ pc' = "done"
    /\ UNCHANGED <<config, host, moderation_result, description>>

\* A direct call of a method of VectorSearchService, by a caller that does
\* not ask is_available() first.
Returned(r) ==
    [kind |-> IF r.ok THEN "return" ELSE "raise", status |-> 0, body |-> r.value]

CallIndexAsset(asset_id, text, store_ok) ==
    /\ pc = "idle"
    /\ next_id <= MaxRecords + 1
    /\ Len(store) < MaxRecords
    /\ req' = Request("call_index_asset", NoImage, text, asset_id, 0)
    /\ env' = [NoEnv EXCEPT !.store_ok = store_ok]
    /\ LET e == index_asset(store, uuid4(next_id), qdrant_client, asset_id, text,
                            Encode(text), Metadata, store_ok)
       IN  /\ log' = e.calls
           /\ store' = e.store
           /\ next_id' = IF e.result.ok THEN next_id + 1 ELSE next_id
           /\ response' = Returned(e.result)
    /\ pc' = "done"
    /\ UNCHANGED <<config, host, moderation_result, description, embedding>>

CallGenerateEmbedding(text, encode_ok) ==
    /\ pc = "idle"
    /\ req' = Request("call_generate_embedding", NoImage, text, None, 0)
    /\ env' = [NoEnv EXCEPT !.encode_ok = encode_ok]
    /\ LET r == generate_embedding(text, embedding_model, encode_ok)
       IN  /\ log' = <<"generate_embedding">>
           /\ embedding' = IF r.ok THEN Some(r.value) ELSE Null
           /\ response' = Returned(r)
    /\ pc' = "done"
    /\ UNCHANGED <<config, host, store, next_id, moderation_result, description>>

\* A direct call of ImageDescriptionService.generate_description.
CallGenerateDescription(image, backend) ==
    /\ pc = "idle"
    /\ req' = Request("call_generate_description", image, <<>>, None, 0)
    /\ env' = [NoEnv EXCEPT !.backend = backend]
    /\ LET r == generate_description(image, backend, provider, desc_is_available)
       IN  /\ log' = <<"generate_description">>
           /\ description' = IF r.ok THEN Some(r.value) ELSE Null
           /\ response' = Returned(r)
    /\ pc' = "done"
    /\ UNCHANGED <<config, host, store, next_id, moderation_result, embedding>>

CallSearch(query, limit, encode_ok, store_ok) ==
    /\ pc = "idle"
    /\ req' = Request("call_search", NoImage, query, None, limit)
    /\ env' = [NoEnv EXCEPT !.encode_ok = encode_ok, !.store_ok = store_ok]
    /\ LET e == search(store, qdrant_client, embedding_model, query, limit,
                       encode_ok, store_ok)
       IN  /\ log' = e.calls
           /\ response' = Returned(e.result)
    /\ pc' = "done"
    /\ UNCHANGED <<config, host, store, next_id, moderation_result, description, embedding>>

CallDeleteAsset(asset_id, store_ok) ==
    /\ pc = "idle"
    /\ req' = Request("call_delete_asset", NoImage, <<>>, asset_id, 0)
    /\ env' = [NoEnv EXCEPT !.store_ok = store_ok]
    /\ LET e == delete_asset(store, qdrant_client, asset_id, store_ok)
       IN  /\ log' = e.calls
           /\ store' = e.store
           /\ response' = Returned(e.result)
    /\ pc' = "done"
    /\ UNCHANGED <<config, host, next_id, moderation_result, description, embedding>>

\* The body health_check returns.
health_check(desc_available, vs_available) ==
    [status |-> "healthy",
     services |->
         [content_moderation |-> "ready",
          image_description |-> IF desc_available THEN "ready" ELSE "unavailable",
          vector_search |-> IF vs_available THEN "ready" ELSE "unavailable"]]

\* health_check probing the description provider again (mutation of
\* HealthCheck).
HealthCheckReprobing ==
    /\ pc = "idle"
    /\ req' = Request("health", NoImage, <<>>, None, 0)
    /\ \E probe \in Probes :
           /\ catalog' = probe
           /\ desc_is_available' = _check_availability(provider, openai_api_key, probe)
    /\ response' = Http(200, health_check(desc_is_available', vs_is_available))
    /\ log' = <<>>
    /\ env' = NoEnv
    /\ pc' = "done"
    /\ UNCHANGED <<threshold, provider, openai_api_key, embedding_model,
                   qdrant_client, vs_is_available, host, store, next_id,
                   moderation_result, description, embedding>>

\* health_check of main.py
HealthCheck ==
    /\ pc = "idle"
    /\ req' = Request("health", NoImage, <<>>, None, 0)
    /\ response' = Http(200, health_check(desc_is_available, vs_is_available))
    /\ log' = <<>>
    /\ env' = NoEnv
    /\ pc' = "done"
    /\ UNCHANGED <<config, host, store, next_id, moderation_result, description,
                   embedding>>

\* The response is sent; the handler's locals are gone.
Finish ==
    /\ pc = "done"
    /\ pc' = "idle"
    /\ req' = NoRequest
    /\ moderation_result' = Null
    /\ description' = Null
    /\ embedding' = Null
    /\ response' = NoResponse
    /\ env' = NoEnv
    /\ log' = <<>>
    /\ UNCHANGED <<config, host, store, next_id>>

(***************************************************************************)
(* The start of several instances against one vector store: _initialize,   *)
(* step by step, each step raising or not.                                 *)
(***************************************************************************)
VectorSize == 512

\* The frame of a step of _initialize.
BootFrame ==
    UNCHANGED <<config, store, next_id, pc, req, moderation_result, description,
                embedding, response, env, log, tasks, temp_image, running>>

\* The outer except branch of _initialize.
BootFailed(inst) == [inst EXCEPT !.pc = "done", !._is_available = FALSE]

\* SentenceTransformer('clip-ViT-B-32')
BootLoadModel(i, ok) ==
    /\ instances[i].pc = "load_model"
    /\ instances' = [instances EXCEPT ![i] =
           IF ok THEN [@ EXCEPT !.pc = "construct_client", !.embedding_model = TRUE]
           ELSE BootFailed(@)]
    /\ UNCHANGED collection
    /\ BootFrame

\* QdrantClient(...)
BootConstructClient(i, ok) ==
    /\ instances[i].pc = "construct_client"
    /\ instances' = [instances EXCEPT ![i] =
           IF ok THEN [@ EXCEPT !.pc = "get_collections", !.qdrant_client = TRUE]
           ELSE BootFailed(@)]
    /\ UNCHANGED collection
    /\ BootFrame

\* get_collections and the test collection_exists.
BootGetCollections(i, ok) ==
    /\ instances[i].pc = "get_collections"
    /\ instances' = [instances EXCEPT ![i] =
           IF ~ok THEN BootFailed(@)
           ELSE IF collection.exists
           THEN [@ EXCEPT !.pc = "done", !.collection_exists = "yes",
                          !._is_available = TRUE]
           ELSE [@ EXCEPT !.pc = "create_collection", !.collection_exists = "no"]]
    /\ UNCHANGED collection
    /\ BootFrame

\* create_collection: the store refuses to create a collection that is
\* there, and the call raises.
BootCreateCollection(i, ok) ==
    /\ instances[i].pc = "create_collection"
    /\ IF ~ok THEN
           /\ instances' = [instances EXCEPT ![i] = BootFailed(@)]
           /\ UNCHANGED collection
       ELSE IF collection.exists THEN
           /\ instances' = [instances EXCEPT ![i] =
                  [BootFailed(@) EXCEPT !.conflict = TRUE]]
           /\ UNCHANGED collection
       ELSE
           /\ instances' = [instances EXCEPT ![i] =
                  [@ EXCEPT !.pc = "done", !._is_available = TRUE]]
           /\ collection' = [exists |-> TRUE, size |-> VectorSize,
                             distance |-> "Cosine",
                             creates |-> collection.creates + 1]
    /\ BootFrame

(***************************************************************************)
(* The requests in flight in the processes of one host.  Each process runs *)
(* the application on one event loop (uvicorn.run(app)); a handler is      *)
(* suspended only at "await file.read()": check_image, the description and *)
(* the embedding call the classifier, requests.post and encode directly,   *)
(* so the handler keeps the loop of its process until it returns.  The     *)
(* processes of the host share the file /tmp/temp_image.jpg.               *)
(***************************************************************************)
TaskImages ==
    {UndecodableImage,
     [decodable |-> TRUE, detections |-> <<>>, size |-> DefaultSize],
     [decodable |-> TRUE, size |-> DefaultSize,
      detections |-> <<[class |-> "EXPOSED_BREAST_F", score |-> 90]>>]}
TaskOps == {"moderate", "analyze"}
TaskBackends == {[kind |-> "status", text |-> <<>>], [kind |-> "ok", text |-> <<"dog">>]}

\* The frame of a step of a request on the host.
TaskFrame ==
    UNCHANGED <<config, store, next_id, pc, req, moderation_result, description,
                embedding, response, env, log, instances, collection>>

\* The request r is the one its process is running.
Runs(r) == tasks[r].proc # 0 /\ running[tasks[r].proc] = r

\* The except branch of check_image, for the request r.
TaskFailOpen(task, e) ==
    [task EXCEPT !.pc = "checked", !.waiting = FALSE,
                 !.verdict = Some(FailOpenVerdict(e))]

\* A request arrives at process p: the handler awaits file.read().
TaskAccept(r, p, op, image) ==
    /\ tasks[r].pc = "none"
    /\ tasks' = [tasks EXCEPT ![r] =
           [NoTask EXCEPT !.pc = "ready", !.op = op, !.proc = p, !.image = image]]
    /\ UNCHANGED <<temp_image, running>>
    /\ TaskFrame

\* The event loop of the process, free, resumes the handler.
TaskResume(r) ==
    /\ tasks[r].pc = "ready"
    /\ running[tasks[r].proc] = 0
    /\ running' = [running EXCEPT ![tasks[r].proc] = r]
    /\ tasks' = [tasks EXCEPT ![r].pc = "open"]
    /\ UNCHANGED temp_image
    /\ TaskFrame

\* check_image: Image.open and the conversion to RGB.
TaskOpen(r) ==
    /\ tasks[r].pc = "open" /\ Runs(r)
    /\ tasks' = [tasks EXCEPT ![r] =
           IF @.image.decodable THEN [@ EXCEPT !.pc = "save"]
           ELSE TaskFailOpen(@, "cannot identify image file")]
    /\ UNCHANGED <<temp_image, running>>
    /\ TaskFrame

\* check_image: image.save(temp_path), then the call of detector.detect.
TaskSave(r) ==
    /\ tasks[r].pc = "save" /\ Runs(r)
    /\ temp_image' = Some(tasks[r].image)
    /\ tasks' = [tasks EXCEPT ![r] = [@ EXCEPT !.pc = "detecting", !.waiting = TRUE]]
    /\ UNCHANGED running
    /\ TaskFrame

\* check_image: detector.detect(temp_path) returns what it found in the
\* file at the path, or raises when there is no file.
TaskDetectReturn(r) ==
    /\ tasks[r].pc = "detecting" /\ Runs(r)
    /\ tasks' = [tasks EXCEPT ![r] =
           IF temp_image.some
           THEN [@ EXCEPT !.pc = "remove", !.waiting = FALSE,
                          !.detections = temp_image.val.detections]
           ELSE TaskFailOpen(@, "FileNotFoundError")]
    /\ UNCHANGED <<temp_image, running>>
    /\ TaskFrame

\* check_image: os.remove(temp_path) raises when there is no file.
TaskRemove(r) ==
    /\ tasks[r].pc = "remove" /\ Runs(r)
    /\ IF temp_image.some
       THEN /\ temp_image' = Null
            /\ tasks' = [tasks EXCEPT ![r].pc = "decide"]
       ELSE /\ tasks' = [tasks EXCEPT ![r] = TaskFailOpen(@, "FileNotFoundError")]
            /\ UNCHANGED temp_image
    /\ UNCHANGED running
    /\ TaskFrame

\* check_image: the loop over the detections and the verdict.
TaskDecide(r) ==
    /\ tasks[r].pc = "decide" /\ Runs(r)
    /\ tasks' = [tasks EXCEPT ![r] =
           [@ EXCEPT !.pc = "checked",
                     !.verdict = Some(check_image_try(
                         [decodable |-> TRUE, detections |-> tasks[r].detections,
                          size |-> DefaultSize],
                         "none", threshold).value)]]
    /\ UNCHANGED <<temp_image, running>>
    /\ TaskFrame

\* The handler after check_image: moderate_image returns; analyze_image
\* returns on an unsafe verdict or without a description provider, and
\* calls generate_description otherwise.
TaskChecked(r) ==
    /\ tasks[r].pc = "checked" /\ Runs(r)
    /\ IF /\ tasks[r].op = "analyze"
          /\ ~UnsafeGate(tasks[r].verdict.val)
          /\ DescribeGate(desc_is_available)
       THEN /\ tasks' = [tasks EXCEPT ![r] = [@ EXCEPT !.pc = "describing", !.waiting = TRUE]]
            /\ UNCHANGED running
       ELSE /\ tasks' = [tasks EXCEPT ![r].pc = "done"]
            /\ running' = [running EXCEPT ![tasks[r].proc] = 0]
    /\ UNCHANGED temp_image
    /\ TaskFrame

\* analyze_image: requests.post of generate_description returns; the
\* handler calls generate_embedding on a description, or returns.
TaskDescribeReturn(r, backend) ==
    /\ tasks[r].pc = "describing" /\ Runs(r)
    /\ LET d == generate_description(tasks[r].image, backend, provider, desc_is_available)
       IN  IF EmbedGate(vs_is_available, Some(d.value))
           THEN /\ tasks' = [tasks EXCEPT ![r] = [@ EXCEPT !.pc = "embedding"]]
                /\ UNCHANGED running
           ELSE /\ tasks' = [tasks EXCEPT ![r] = [@ EXCEPT !.pc = "done", !.waiting = FALSE]]
                /\ running' = [running EXCEPT ![tasks[r].proc] = 0]
    /\ UNCHANGED temp_image
    /\ TaskFrame

\* analyze_image: embedding_model.encode returns or raises; the handler
\* returns its response.
TaskEmbedReturn(r) ==
    /\ tasks[r].pc = "embedding" /\ Runs(r)
    /\ tasks' = [tasks EXCEPT ![r] = [@ EXCEPT !.pc = "done", !.waiting = FALSE]]
    /\ running' = [running EXCEPT ![tasks[r].proc] = 0]
    /\ UNCHANGED temp_image
    /\ TaskFrame

(***************************************************************************)
(* The specifications.  The image handlers never touch the store and the   *)
(* vector handlers never read the threshold, so the two groups are checked *)
(* apart: Spec runs the image handlers under every configuration,          *)
(* SpecVector the vector index and its callers under every start-up        *)
(* outcome of the vector service, SpecModeration the moderation of every   *)
(* detection list up to MaxDets under every threshold.                     *)
(***************************************************************************)
Next ==
    \/ \E image \in SampleImages, fault \in CheckFaults : AnalyzeModerate(image, fault)
    \/ \E backend \in Backends : AnalyzeDescribe(backend)
    \/ \E encode_ok \in BOOLEAN : AnalyzeEmbed(encode_ok)
    \/ \E image \in SampleImages, fault \in CheckFaults : ModerateImage(image, fault)
    \/ \E image \in SampleImages, backend \in Backends : DescribeImage(image, backend)
    \/ \E image \in SampleImages, backend \in Backends :
           CallGenerateDescription(image, backend)
    \/ Finish

Spec == Init /\ [][Next]_vars

InitVector == InitWith({DefaultThreshold}, {"ollama"}, {None}, CommonProbes, Bootstraps)

NextVector ==
    \/ \E image \in SampleImages, backend \in Backends : DescribeImage(image, backend)
    \/ \E query \in Queries, limit \in Limits, encode_ok \in BOOLEAN, store_ok \in BOOLEAN :
           SearchSimilar(query, limit, encode_ok, store_ok)
    \/ \E asset_id \in AssetIds, text \in Texts, encode_ok \in BOOLEAN, store_ok \in BOOLEAN :
           IndexAsset(asset_id, text, encode_ok, store_ok)
    \/ \E text \in Texts, encode_ok \in BOOLEAN : CallGenerateEmbedding(text, encode_ok)
    \/ \E asset_id \in AssetIds, text \in Texts, store_ok \in BOOLEAN :
           CallIndexAsset(asset_id, text, store_ok)
    \/ \E query \in Queries, limit \in Limits, encode_ok \in BOOLEAN, store_ok \in BOOLEAN :
           CallSearch(query, limit, encode_ok, store_ok)
    \/ \E asset_id \in AssetIds, store_ok \in BOOLEAN : CallDeleteAsset(asset_id, store_ok)
    \/ Finish

SpecVector == InitVector /\ [][NextVector]_vars

InitModeration ==
    InitWith(Thresholds, {"ollama"}, {None}, CommonProbes,
             {[model_ok |-> TRUE, client_ok |-> TRUE, collections |-> "exists",
               create_ok |-> TRUE]})

NextModeration ==
    \/ \E image \in AllImages, fault \in CheckFaults : ModerateImage(image, fault)
    \/ Finish

SpecModeration == InitModeration /\ [][NextModeration]_vars

\* The six endpoints of main.py together, under every configuration and
\* start-up outcome.
NextService ==
    \/ HealthCheck
    \/ \E image \in TaskImages, fault \in CheckFaults : AnalyzeModerate(image, fault)
    \/ \E backend \in Backends : AnalyzeDescribe(backend)
    \/ \E encode_ok \in BOOLEAN : AnalyzeEmbed(encode_ok)
    \/ \E image \in TaskImages, fault \in CheckFaults : ModerateImage(image, fault)
    \/ \E image \in TaskImages, backend \in Backends : DescribeImage(image, backend)
    \/ \E query \in {<<"dog">>}, limit \in Limits, encode_ok \in BOOLEAN, store_ok \in BOOLEAN :
           SearchSimilar(query, limit, encode_ok, store_ok)
    \/ \E asset_id \in {"A"}, text \in {<<"dog">>}, encode_ok \in BOOLEAN, store_ok \in BOOLEAN :
           IndexAsset(asset_id, text, encode_ok, store_ok)
    \/ Finish

SpecService == Init /\ [][NextService]_vars

\* The construction of the description service under every configuration
\* and every answer of the catalog, and the endpoints that read its flag.
InitProbe ==
    InitWith({DefaultThreshold}, Providers, ApiKeys, Probes,
             {[model_ok |-> TRUE, client_ok |-> TRUE, collections |-> "exists",
               create_ok |-> TRUE]})

NextProbe ==
    \/ HealthCheck
    \/ \E image \in TaskImages, backend \in TaskBackends : DescribeImage(image, backend)
    \/ Finish

SpecProbe == InitProbe /\ [][NextProbe]_vars

\* The description endpoint on images of every size, with the cloud and
\* the local provider available.
Dims == {1, 2, 512, 513, 561, 1024, 1122, 2048}
SizedImages ==
    {[decodable |-> TRUE, detections |-> <<>>, size |-> <<w, h>>] :
         w \in Dims, h \in Dims}

InitResize ==
    InitWith({DefaultThreshold}, {"openai", "ollama"}, {"sk-key"}, CommonProbes,
             {[model_ok |-> TRUE, client_ok |-> TRUE, collections |-> "exists",
               create_ok |-> TRUE]})

NextResize ==
    \/ \E image \in SizedImages, backend \in TaskBackends : DescribeImage(image, backend)
    \/ Finish

SpecResize == InitResize /\ [][NextResize]_vars

InitHostRequests ==
    InitWith({DefaultThreshold}, {"ollama"}, {None}, CommonProbes,
             {[model_ok |-> TRUE, client_ok |-> TRUE, collections |-> "exists",
               create_ok |-> TRUE]})

NextHostRequests ==
    \/ \E r \in 1..MaxRequests, p \in 1..MaxRequests, op \in TaskOps, image \in TaskImages :
           TaskAccept(r, p, op, image)
    \/ \E r \in 1..MaxRequests : TaskResume(r)
    \/ \E r \in 1..MaxRequests : TaskOpen(r)
    \/ \E r \in 1..MaxRequests : TaskSave(r)
    \/ \E r \in 1..MaxRequests : TaskDetectReturn(r)
    \/ \E r \in 1..MaxRequests : TaskRemove(r)
    \/ \E r \in 1..MaxRequests : TaskDecide(r)
    \/ \E r \in 1..MaxRequests : TaskChecked(r)
    \/ \E r \in 1..MaxRequests, backend \in TaskBackends : TaskDescribeReturn(r, backend)
    \/ \E r \in 1..MaxRequests : TaskEmbedReturn(r)

SpecHostRequests == InitHostRequests /\ [][NextHostRequests]_vars

NextBootstrap ==
    \/ \E i \in 1..MaxInstances, ok \in BOOLEAN : BootLoadModel(i, ok)
    \/ \E i \in 1..MaxInstances, ok \in BOOLEAN : BootConstructClient(i, ok)
    \/ \E i \in 1..MaxInstances, ok \in BOOLEAN : BootGetCollections(i, ok)
    \/ \E i \in 1..MaxInstances, ok \in BOOLEAN : BootCreateCollection(i, ok)

InitBootstrap ==
    InitWith({DefaultThreshold}, {"ollama"}, {None}, CommonProbes,
             {[model_ok |-> TRUE, client_ok |-> TRUE, collections |-> "exists",
               create_ok |-> TRUE]})

SpecBootstrap == InitBootstrap /\ [][NextBootstrap]_vars


(***************************************************************************)
(* The claims.                                                             *)
(***************************************************************************)
Called(name) == \E i \in DOMAIN log : log[i] = name

\* C1: in every analyze request whose moderation verdict is unsafe, the
\* response is is_safe = false with description and embedding null, and
\* neither generate_description nor generate_embedding is called at any
\* point of the request.
C1_UnsafeVerdictEndsAnalysis ==
    (req.op = "analyze" /\ moderation_result.some /\ ~moderation_result.val.is_safe) =>
        /\ pc = "done"
        /\ response.kind = "http" /\ response.status = 200
        /\ response.body.is_safe = FALSE
        /\ ~response.body.description.some
        /\ ~response.body.embedding.some
        /\ ~Called("generate_description")
        /\ ~Called("generate_embedding")

C1_Witness ==
    /\ req.op = "analyze" /\ pc = "done"
    /\ moderation_result.some /\ ~moderation_result.val.is_safe
    /\ response.status = 200

\* C2: when a step of check_image raises (the image cannot be opened, the
\* save, the detection or the removal of the temporary file fails),
\* check_image still returns a verdict to the handler, with is_safe = true,
\* no detections and an error annotation: no exception escapes.
C2_FailOpen ==
    (req.op \in {"analyze", "moderate"} /\ (~req.image.decodable \/ env.fault # "none")) =>
        /\ moderation_result.some
        /\ moderation_result.val.is_safe
        /\ moderation_result.val.detections = <<>>
        /\ moderation_result.val.error # None
        /\ (req.op = "moderate" =>
                /\ response.status = 200
                /\ response.body.is_safe
                /\ response.body.details = moderation_result.val)

C2_Witness ==
    /\ req.op = "moderate" /\ pc = "done"
    /\ req.image.decodable /\ env.fault = "detect"
    /\ Len(req.image.detections) > 0
    /\ moderation_result.val.is_safe /\ moderation_result.val.error = "detect"

\* The detections that trigger an unsafe verdict, as the verdict lists them.
TriggeringDetections(detections, thr) ==
    LET hits == SelectSeq(detections,
                          LAMBDA d : d.class \in unsafe_labels /\ d.score > thr)
    IN  [k \in 1..Len(hits) |-> [label |-> hits[k].class, confidence |-> hits[k].score]]

C7_UnavailableDescriptionIsPartialSuccess ==
    (req.op = "analyze" /\ moderation_result.some /\ moderation_result.val.is_safe
        /\ ~desc_is_available) =>
        /\ ~Called("generate_description")
        /\ ~Called("generate_embedding")
        /\ pc \in {"analyze_describe", "done"}
        /\ (pc = "done" =>
                /\ response.kind = "http" /\ response.status = 200
                /\ response.body.is_safe
                /\ ~response.body.description.some
                /\ ~response.body.embedding.some)

C7_Witness ==
    /\ req.op = "analyze" /\ pc = "done"
    /\ moderation_result.some /\ moderation_result.val.is_safe
    /\ ~desc_is_available /\ vs_is_available
    /\ response.status = 200

\* The strings generate_description returns in place of a description.
ErrorPrefixes ==
    {"Error with OpenAI: ", "Error with Ollama: ", "Error generating description: "}

IsErrorSentinel(text) ==
    text = FailedDescription \/ (Len(text) > 0 /\ Head(text) \in ErrorPrefixes)

IsSentinel(text) ==
    \/ IsErrorSentinel(text)
    \/ text = <<"Unknown image description provider">>
    \/ (Len(text) > 0 /\ Head(text) = "Image description unavailable - ")

Usable(desc) == desc.some /\ Len(desc.val) > 0 /\ ~IsSentinel(desc.val)

\* C4: in analyze on a safe image, generate_embedding is called only for
\* a description that is neither empty nor a sentinel and with the
\* embedding provider available; a description without usable text ends
\* the request with embedding = null.
C4_EmbeddingOnlyOfUsableDescription ==
    (req.op = "analyze" /\ req.image.decodable /\ env.fault = "none") =>
        /\ (Called("generate_embedding") => Usable(description) /\ vs_is_available)
        /\ (pc = "done" /\ description.some /\ ~Usable(description) =>
                /\ response.status = 200
                /\ ~response.body.embedding.some)

\* C5: when the description provider (describe) or the vector index
\* (search, index) was never initialized, the response has status 503,
\* never 500.
C5_UnavailableIs503 ==
    (/\ pc = "done"
     /\ \/ (req.op = "describe" /\ ~desc_is_available)
        \/ (req.op \in {"search", "index"} /\ ~vs_is_available)) =>
        response.status = 503

\* C6: for bytes that cannot be parsed as an image, moderate, analyze and
\* describe answer with a failure, not with a normal verdict or
\* description.
C6_DecodeErrorSurfaced ==
    (pc = "done" /\ req.op \in {"moderate", "analyze", "describe"} /\ ~req.image.decodable) =>
        response.status # 200

\* The external calls of the request that were made and failed.
EmbeddingFailed == Called("generate_embedding") /\ (~embedding_model \/ ~env.encode_ok)
StoreFailed == (Called("upsert") \/ Called("query_points")) /\ ~env.store_ok

\* C8: a failure of generate_embedding, of the upsert or of the query
\* during index or search reaches the caller as an error; index answers
\* success only after the embedding and the upsert completed, and search
\* answers a result list only after the embedding and the query completed.
C8_FailClosed ==
    pc = "done" =>
        /\ (req.op \in {"index", "search"} /\ (EmbeddingFailed \/ StoreFailed) =>
                response.status = 500)
        /\ (req.op \in {"call_index_asset", "call_search", "call_generate_embedding"}
                /\ (EmbeddingFailed \/ StoreFailed) =>
                response.kind = "raise")
        /\ (req.op = "index" /\ response.status = 200 =>
                /\ log = <<"generate_embedding", "upsert">>
                /\ embedding_model /\ env.encode_ok /\ env.store_ok
                /\ response.body = [success |-> TRUE, asset_id |-> req.asset_id]
                /\ Len(store) > 0
                /\ store[Len(store)].payload.asset_id = req.asset_id
                /\ store[Len(store)].vector = Encode(req.text))
        /\ ((req.op = "search" /\ response.status = 200) \/
            (req.op = "call_search" /\ response.kind = "return") =>
                /\ log = <<"generate_embedding", "query_points">>
                /\ embedding_model /\ env.encode_ok /\ env.store_ok)

C8_Witness ==
    /\ pc = "done" /\ req.op = "search"
    /\ Len(store) > 0
    /\ Called("query_points") /\ ~env.store_ok
    /\ response.status = 500

\* The failures of the description backend and of the image decoding in a
\* call of generate_description with the provider available.
ProviderError ==
    ~req.image.decodable \/ env.backend.kind \in {"raise", "status", "bad_json", "no_field"}

\* C9: generate_description never propagates an exception and
\* always returns a string; unavailable, it returns the sentinel message;
\* on any provider error it returns an error-annotated sentinel.
C9_DescriptionErrorsAreSentinels ==
    Called("generate_description") =>
        /\ description.some
        /\ (~desc_is_available => Head(description.val) = "Image description unavailable - ")
        /\ (desc_is_available /\ ProviderError => IsErrorSentinel(description.val))

StoreCalled == Called("upsert") \/ Called("query_points") \/ Called("delete")

UnavailableErrors == {"Qdrant client not initialized", "Vector search not available"}

\* C10: when the bootstrap of the vector store did not complete,
\* every call of index_asset, search and delete_asset raises the
\* unavailable error, before any call to the store.
C10_NotBootstrappedNeverCallsStore ==
    (/\ pc = "done" /\ ~vs_is_available
     /\ req.op \in {"call_index_asset", "call_search", "call_delete_asset"}) =>
        /\ response.kind = "raise"
        /\ response.body \in UnavailableErrors
        /\ ~StoreCalled

\* The records of points whose payload has the asset id a.
HasAsset(points, a) == \E k \in DOMAIN points : points[k].payload.asset_id = a

\* points without the records of asset a, in their order.
RECURSIVE WithoutAsset(_, _)
WithoutAsset(points, a) ==
    IF Len(points) = 0 THEN <<>>
    ELSE IF Head(points).payload.asset_id = a THEN WithoutAsset(Tail(points), a)
    ELSE <<Head(points)>> \o WithoutAsset(Tail(points), a)

\* A request answered with success: 200 from a handler, a return from a
\* direct call of a service method.
Succeeded(resp) ==
    (resp.kind = "http" /\ resp.status = 200) \/ resp.kind = "return"

\* C11: a successful delete_asset(A) leaves exactly the records whose
\* asset_id differs from A, however many records A had; a record of an
\* asset that has none appears only by an index call for that asset; and a
\* successful search returns only asset ids that have a record in the
\* store, so that no search returns A between the delete and the next
\* index of A.
C11_DeleteRemovesEveryRecord ==
    [][/\ (req'.op = "call_delete_asset" /\ pc = "idle" /\ Succeeded(response')) =>
              /\ store' = WithoutAsset(store, req'.asset_id)
              /\ ~HasAsset(store', req'.asset_id)
       /\ \A a \in AssetIds :
              (~HasAsset(store, a) /\ HasAsset(store', a)) =>
                  (req'.op \in {"index", "call_index_asset"} /\ req'.asset_id = a)
       /\ (req'.op \in {"search", "call_search"} /\ pc = "idle" /\ Succeeded(response')) =>
              \A k \in DOMAIN response'.body : HasAsset(store', response'.body[k].asset_id)
      ]_vars

C11_Witness ==
    /\ pc = "done" /\ req.op = "call_delete_asset" /\ Succeeded(response)
    /\ next_id = 3
    /\ Len(store) = 1
    /\ store[1].id = uuid4(1)
    /\ store[1].payload.asset_id # req.asset_id

\* The point ids of the store.
Ids(points) == {points[k].id : k \in DOMAIN points}

\* C12: every successful index call appends exactly one record to the
\* store and changes no other; the new record's id is none of the ids in
\* the store, is not the asset_id, and the ids of the store stay distinct,
\* so that n index calls for one asset_id leave n records with it.
C12_IndexAddsOneFreshRecord ==
    [][(req'.op \in {"index", "call_index_asset"} /\ pc = "idle" /\ Succeeded(response')) =>
           /\ Len(store') = Len(store) + 1
           /\ SubSeq(store', 1, Len(store)) = store
           /\ store'[Len(store')].id \notin Ids(store)
           /\ store'[Len(store')].id # req'.asset_id
           /\ store'[Len(store')].payload.asset_id = req'.asset_id
           /\ store'[Len(store')].payload.description = req'.text
           /\ Cardinality(Ids(store')) = Len(store')
      ]_vars

C12_Witness ==
    /\ pc = "done" /\ req.op = "index" /\ Succeeded(response)
    /\ Len(store) = 2
    /\ store[1].payload.asset_id = req.asset_id
    /\ store[2].payload.asset_id = req.asset_id
    /\ store[1].id # store[2].id

\* The similarity of the record j of the store to the query of the request.
ScoreOf(j) == Similarity(Encode(req.text), store[j].vector)

\* The result at position k of the answer is the record j of the store.
IsRecord(k, j) ==
    /\ response.body[k].asset_id = store[j].payload.asset_id
    /\ response.body[k].description = store[j].payload.description
    /\ response.body[k].score = ScoreOf(j)

SearchAnswered ==
    pc = "done" /\ req.op \in {"search", "call_search"} /\ Succeeded(response)

\* C13: a successful search(query, k) returns min(k, size of the store)
\* results, in non-increasing order of score; the results are distinct
\* records of the store, each with the asset_id, the description and the
\* similarity of its record, and no record left out is more similar to the
\* query than a record returned.
C13_SearchReturnsTopK ==
    SearchAnswered =>
        LET n == Len(response.body)
        IN  /\ n <= req.limit
            /\ n = IF Len(store) < req.limit THEN Len(store) ELSE req.limit
            /\ \A k \in 1..(n - 1) : response.body[k].score >= response.body[k + 1].score
            /\ \E f \in [1..n -> DOMAIN store] :
                   /\ \A k1, k2 \in 1..n : f[k1] = f[k2] => k1 = k2
                   /\ \A k \in 1..n : IsRecord(k, f[k])
                   /\ \A j \in DOMAIN store :
                          (\A k \in 1..n : f[k] # j) =>
                              \A k \in 1..n : ScoreOf(j) <= response.body[k].score

C13_Witness ==
    /\ SearchAnswered /\ req.op = "search"
    /\ req.limit = 1 /\ Len(store) = 2 /\ Len(response.body) = 1
    /\ ScoreOf(2) > ScoreOf(1)
    /\ IsRecord(1, 2)
    /\ store[1].payload.asset_id # store[2].payload.asset_id

\* The record j of the store is in the answer.
Present(j) == \E k \in DOMAIN response.body : IsRecord(k, j)

\* Every record more similar to the query than the record j is ranked
\* before it, or the record j is not in the answer.
RankedLower(j) ==
    \A k \in DOMAIN response.body :
        IsRecord(k, j) =>
            \A i \in DOMAIN store :
                ScoreOf(i) > ScoreOf(j) => \E k2 \in 1..(k - 1) : IsRecord(k2, i)

\* C14: for every record (A, D) in the store (index(A, D) succeeded and A
\* was not deleted since), a successful search whose query is D returns a
\* result with asset_id = A and a score; a search with another query
\* returns A ranked lower or not at all.
C14_IndexedAssetIsFound ==
    SearchAnswered =>
        \A j \in DOMAIN store :
            IF store[j].payload.description = req.text
            THEN \E k \in DOMAIN response.body :
                     response.body[k].asset_id = store[j].payload.asset_id
            ELSE RankedLower(j)

\* The number of records at least as similar to the query as the record j.
AtLeastAsSimilar(j) == Cardinality({i \in DOMAIN store : ScoreOf(i) >= ScoreOf(j)})

\* C14, amended: for every record (A, D) in the store, a successful search
\* whose query is D gives A's record the highest score there is and
\* returns it whenever the limit is at least the number of records as
\* similar to the query as A's record (records with the same description
\* tie, and a smaller limit leaves some of them out); a search with
\* another query returns A ranked lower or not at all.
C14_RoundTripWithinLimit ==
    SearchAnswered =>
        \A j \in DOMAIN store :
            /\ (store[j].payload.description = req.text) =>
                   /\ ScoreOf(j) = Similarity(Encode(req.text), Encode(req.text))
                   /\ \A i \in DOMAIN store : ScoreOf(i) <= ScoreOf(j)
            /\ (req.limit >= AtLeastAsSimilar(j)) =>
                   /\ Present(j)
                   /\ \E k \in DOMAIN response.body :
                          response.body[k].asset_id = store[j].payload.asset_id
            /\ (store[j].payload.description # req.text) => RankedLower(j)

C14_Witness ==
    /\ SearchAnswered /\ req.op = "search"
    /\ req.limit = 1 /\ Len(store) = 2
    /\ store[1].payload.asset_id = "B" /\ store[1].payload.description = <<"dog">>
    /\ store[2].payload.asset_id = "A" /\ store[2].payload.description = req.text
    /\ req.text = <<"red", "car">>
    /\ Len(response.body) = 1 /\ response.body[1].asset_id = "A"

\* C15: an instance whose create_collection met the collection another
\* instance had created in between finishes its start as if the collection
\* had been there, with the vector index usable; and the collection is
\* created once, with 512 dimensions and the cosine metric.
C15_DuplicateCreateTolerated ==
    /\ \A i \in 1..MaxInstances :
           (instances[i].pc = "done" /\ instances[i].conflict) =>
               /\ instances[i].embedding_model
               /\ instances[i].qdrant_client
               /\ instances[i]._is_available
    /\ collection.creates <= 1
    /\ collection.exists =>
           (collection.size = VectorSize /\ collection.distance = "Cosine")

\* The verdict a check of the image alone returns.
OwnVerdict(image) == check_image(image, "none", threshold).value

\* C16: under every interleaving of the requests of the host, the verdict
\* of a request is safe or unsafe, with the detections listed, as the
\* check of its own image alone decides: no request's verdict depends on
\* what another request wrote to or removed from the host.
C16_VerdictOfOwnImage ==
    \A r \in 1..MaxRequests :
        tasks[r].verdict.some =>
            /\ tasks[r].verdict.val.is_safe = OwnVerdict(tasks[r].image).is_safe
            /\ tasks[r].verdict.val.detections = OwnVerdict(tasks[r].image).detections

\* The request r is in flight: accepted and not answered.
InFlight(r) == tasks[r].pc \notin {"none", "done"}

\* The request r can take its next step: it runs, or the loop of its
\* process is free for it.
CanStep(r) == Runs(r) \/ running[tasks[r].proc] = 0

\* C17: while a request waits for an external call to return, the other
\* requests in flight are not all kept from taking a step.
C17_PendingCallDoesNotBlockOthers ==
    \A r \in 1..MaxRequests :
        (tasks[r].waiting /\ \E o \in 1..MaxRequests : o # r /\ InFlight(o)) =>
            \E o \in 1..MaxRequests : o # r /\ InFlight(o) /\ CanStep(o)

\* C18: no step of any endpoint, whatever its external calls answer,
\* changes the availability flag of the description provider or of the
\* vector search service, and health answers with exactly these flags and
\* content_moderation "ready".
C18_FlagsCachedForLife ==
    [][/\ desc_is_available' = desc_is_available
       /\ vs_is_available' = vs_is_available
       /\ (req'.op = "health" /\ pc' = "done") =>
              /\ response'.status = 200
              /\ response'.body.services.content_moderation = "ready"
              /\ response'.body.services.image_description =
                     (IF desc_is_available THEN "ready" ELSE "unavailable")
              /\ response'.body.services.vector_search =
                     (IF vs_is_available THEN "ready" ELSE "unavailable")
      ]_vars

C18_Witness ==
    /\ pc = "done" /\ req.op = "health"
    /\ Len(store) > 0
    /\ ~desc_is_available /\ vs_is_available
    /\ response.body.services.image_description = "unavailable"
    /\ response.body.services.vector_search = "ready"

\* The tags a catalog appends to a model's name.
ModelTags == {":latest"}

\* The catalog entry `name` is the model `model`: the model's name itself,
\* or that name followed by a tag.
IsModel(name, model) ==
    \/ name = model
    \/ /\ Len(name) = Len(model) + 1
       /\ SubSeq(name, 1, Len(model)) = model
       /\ name[Len(name)] \in ModelTags

\* The catalog answered successfully and lists the required model.
ListsRequiredModel ==
    /\ catalog.kind = "ok"
    /\ \E name \in catalog.models : IsModel(name, ollama_model)

\* C19: the availability flag of the description service is a boolean under
\* every outcome of the probe: with the cloud provider it is true exactly
\* when a credential is configured, with the local provider exactly when
\* the catalog answers successfully and lists the required model, and
\* every failure or unknown provider gives unavailable.
C19_ProbeResolvesAvailability ==
    /\ desc_is_available \in BOOLEAN
    /\ desc_is_available =
           (IF provider = "openai" THEN Truthy(openai_api_key)
            ELSE IF provider = "ollama" THEN ListsRequiredModel
            ELSE FALSE)

\* The message that names the labels of `hits`, in their order, separated
\* by ", ".
Enumerates(message, hits) ==
    /\ Len(message) = (IF Len(hits) = 0 THEN 1 ELSE 2 * Len(hits))
    /\ message[1] = "Image contains inappropriate content: "
    /\ \A k \in 1..Len(hits) : message[2 * k] = hits[k].label
    /\ \A k \in 1..(Len(hits) - 1) : message[2 * k + 1] = ", "

\* The message of the verdict is the one its is_safe calls for.
MessageFollowsIsSafe(verdict) ==
    IF verdict.is_safe THEN verdict.message = SafeMessage
    ELSE Enumerates(verdict.message,
                    TriggeringDetections(req.image.detections, threshold))

\* C20 (as stated): the message of a verdict is the fixed safe string
\* whenever is_safe is true, and otherwise names exactly the triggering
\* labels, comma-joined, in the order the classifier returned them.
C20_MessageFollowsIsSafe ==
    (req.op = "moderate" /\ pc = "done" /\ moderation_result.some) =>
        MessageFollowsIsSafe(moderation_result.val)

\* C20 (amended): when no step of check_image raises, the message is the
\* fixed safe string if is_safe is true and otherwise names exactly the
\* triggering labels, comma-joined, in the classifier's order; the fail-open
\* verdict of a check that raised has is_safe = true and carries the
\* failure message instead.
C20_MessageOfCompletedCheck ==
    (req.op = "moderate" /\ pc = "done" /\ moderation_result.some) =>
        IF moderation_result.val.error = None
        THEN MessageFollowsIsSafe(moderation_result.val)
        ELSE /\ moderation_result.val.is_safe
             /\ moderation_result.val.message =
                    <<"Moderation check failed: ", moderation_result.val.error,
                      ". Defaulting to safe.">>

C20_Witness ==
    /\ req.op = "moderate" /\ pc = "done" /\ moderation_result.some
    /\ moderation_result.val.error = None
    /\ threshold = DefaultThreshold
    /\ req.image.detections =
           <<[class |-> "EXPOSED_BREAST_F", score |-> 90],
             [class |-> "EXPOSED_ANUS", score |-> 90]>>
    /\ moderation_result.val.message =
           <<"Image contains inappropriate content: ",
             "EXPOSED_BREAST_F", ", ", "EXPOSED_ANUS">>

\* The size the description request of the state sends to its provider,
\* or the exception of the resize.
Resized ==
    ResizeIfTooLarge(req.image.size,
                     IF provider = "openai" THEN OpenAIMaxSize ELSE OllamaMaxSize)

\* `scaled` is `dim` scaled by max_size / longest, to the integer.
ScaledBy(scaled, dim, max_size, longest) ==
    /\ scaled * longest <= dim * max_size
    /\ dim * max_size < (scaled + 2) * longest

\* C21: for every width and height >= 1 and the maximum M of the provider
\* (512 local, 1024 cloud), the resize before the description leaves the
\* size unchanged when max(width, height) <= M, and otherwise scales both
\* dimensions by M / max(width, height), gives a larger dimension of at
\* most M, and gives a valid image whose dimensions are both at least 1.
C21_ResizeKeepsValidImage ==
    (req.op = "describe" /\ pc = "done" /\ desc_is_available) =>
        LET M == IF provider = "openai" THEN OpenAIMaxSize ELSE OllamaMaxSize
            size == req.image.size
        IN  /\ Resized.ok
            /\ Resized.value[1] >= 1 /\ Resized.value[2] >= 1
            /\ Longest(Resized.value) <= M
            /\ IF Longest(size) <= M THEN Resized.value = size
               ELSE /\ ScaledBy(Resized.value[1], size[1], M, Longest(size))
                    /\ ScaledBy(Resized.value[2], size[2], M, Longest(size))
            /\ env.backend.kind = "ok" =>
                   description = Some(Strip(env.backend.text))

\* The stages of analyze_image, in their order.
AnalyzeStages == <<"check_image", "generate_description", "generate_embedding">>

\* C22: in every analyze request the calls made so far are the first
\* stages of moderation, description, embedding, in that order and each at
\* most once: moderation is called first, the description is called only
\* with the moderation verdict obtained, the embedding only with the
\* description returned, and no stage is called again after a failure.
C22_StagesInOrderOnce ==
    (req.op = "analyze") =>
        /\ Len(log) \in 1..Len(AnalyzeStages)
        /\ log = SubSeq(AnalyzeStages, 1, Len(log))
        /\ (Called("generate_description") =>
                moderation_result.some /\ moderation_result.val.is_safe)
        /\ (Called("generate_embedding") => description.some)
        /\ (pc = "analyze_describe" => log = <<"check_image">>)
        /\ (pc = "analyze_embed" => log = <<"check_image", "generate_description">>)

C22_Witness ==
    /\ req.op = "analyze" /\ pc = "done"
    /\ log = AnalyzeStages
    /\ env.encode_ok = FALSE
    /\ response.status = 500

\* The moderation check of the analyze request failed open.
FailedOpen ==
    /\ req.op = "analyze"
    /\ moderation_result.some
    /\ moderation_result.val.error # None

\* C23: when the moderation check of an analyze request fails with a
\* technical error, the request goes on into the description and the
\* embedding stage under the same gates as for a safe verdict, and a
\* successful response has is_safe = true and carries the error annotation
\* inside moderation_details only.
C23_FailOpenCarriesThrough ==
    FailedOpen =>
        /\ moderation_result.val.is_safe
        /\ pc \in {"analyze_describe", "analyze_embed", "done"}
        /\ (pc \in {"analyze_embed", "done"} =>
                (Called("generate_description") <=> desc_is_available))
        /\ (pc = "done" =>
                (Called("generate_embedding") <=>
                    (desc_is_available /\ vs_is_available /\ NonEmpty(description))))
        /\ (pc = "done" =>
                IF Called("generate_embedding") /\ ~embedding.some
                THEN response.status = 500
                ELSE /\ response.status = 200
                     /\ DOMAIN response.body =
                            {"is_safe", "description", "embedding", "moderation_details"}
                     /\ response.body.is_safe
                     /\ response.body.description = description
                     /\ response.body.embedding = embedding
                     /\ response.body.moderation_details.error =
                            (IF req.image.decodable THEN env.fault
                             ELSE "cannot identify image file"))

C23_Witness ==
    /\ FailedOpen /\ pc = "done"
    /\ req.image.decodable /\ env.fault = "detect"
    /\ Len(req.image.detections) > 0
    /\ Triggers(req.image.detections[1], threshold)
    /\ Called("generate_description") /\ Called("generate_embedding")
    /\ response.status = 200 /\ response.body.is_safe
    /\ response.body.description.some /\ response.body.embedding.some
    /\ response.body.moderation_details.error = "detect"

\* C24: the availability flag of the vector search is true only with the
\* embedding model loaded and the bootstrap of the store succeeded; with
\* the flag false, an analyze request on a safe image with a description
\* produced does not call generate_embedding and answers 200 with that
\* description and embedding = null.
C24_EmbeddingGatedOnStoreBootstrap ==
    /\ vs_is_available => (embedding_model /\ qdrant_client)
    /\ (req.op = "analyze" /\ ~vs_is_available /\ moderation_result.some
            /\ moderation_result.val.is_safe /\ description.some) =>
           /\ ~Called("generate_embedding")
           /\ ~embedding.some
           /\ pc \in {"analyze_embed", "done"}
           /\ (pc = "done" =>
                   /\ response.kind = "http" /\ response.status = 200
                   /\ response.body.is_safe
                   /\ response.body.description = description
                   /\ ~response.body.embedding.some)

C24_Witness ==
    /\ req.op = "analyze" /\ pc = "done"
    /\ embedding_model /\ qdrant_client /\ ~vs_is_available
    /\ moderation_result.some /\ moderation_result.val.error = None
    /\ moderation_result.val.is_safe
    /\ description = Some(<<"dog">>)
    /\ response.status = 200
    /\ response.body.description = Some(<<"dog">>)
    /\ ~response.body.embedding.some

====
